---- MODULE Spec2Model ----
(***************************************************************************)
(* Model of the car-aggregator ingestion core: the vehicle store          *)
(* (database/mongo_client.py), the normalizers and the reconciliation of   *)
(* scrapers/kia_scraper.py, the detail-update scripts                      *)
(* (scripts/update_car_details.py, update_kia_data.py) and the retrying    *)
(* fetcher (scrapers/base_scraper.py).                                     *)
(*                                                                         *)
(* Python strings are sequences of one-character strings, Mongo documents  *)
(* and Python dicts are functions from field names to values, a Mongo      *)
(* collection is a set of documents.  Prices are kept in hundredths.       *)
(***************************************************************************)
EXTENDS Integers, Sequences, FiniteSets, TLC

VARIABLES
    cars,      \* the "cars" collection: a set of documents
    now,       \* the wall clock read by datetime.now()
    lastOp,    \* description of the operation that produced this state
    hashSeed,  \* the per-process salt of Python's str hash
    car_ids,   \* the "car_ids" collection: per model, the source ids collected
    pc,        \* position of each concurrent pipeline instance
    pend,      \* the document and match result an instance holds
    fPc,       \* position of fetch_with_retry
    fMethod,   \* the HTTP method of the current call
    attempt,   \* loop variable of fetch_with_retry
    requests,  \* number of HTTP requests issued by the current call
    fLog,      \* outcome of each attempt of the current call
    fWaits,    \* the sleeps taken after failed attempts
    fResult,   \* the value returned by fetch_with_retry
    nIn,       \* a pair of raw records handed to the normalizers
    nOut,      \* the pair of car_ids built from them
    gen,       \* the save loop of _generate_fallback_data: position, records left, results
    upd,       \* the detail-update loop of the update scripts: position, ids left, counters
    sched      \* CarAggregator.run_continuous: position, clock, last_daily_update

vars == <<cars, now, lastOp, hashSeed, car_ids, pc, pend, fPc, fMethod, attempt, requests,
          fLog, fWaits, fResult, nIn, nOut, gen, upd, sched>>

storeVars == <<cars, now, lastOp, hashSeed, car_ids>>
concVars  == <<pc, pend>>
fetchVars == <<fPc, fMethod, attempt, requests, fLog, fWaits, fResult>>
normVars  == <<nIn, nOut>>
jobVars   == <<gen, upd, sched>>

----------------------------------------------------------------------------
(* Bounds *)

MaxTime == 1
MaxCount == 1
MaxLimit == 2
MaxFallbackCount == 6
MaxDay == 2
MaxErrors == 1
CurrentYear == 2026

(* Program constants *)

MAX_RETRIES == 3
RETRY_DELAY == 5
FallbackCap == 5
DefaultBasePrice == 15000
HashModulus == 10000000
PriceScale == 100
CHECK_INTERVAL == 3600
work_hours_start == 32400
work_hours_end == 64800
OffHoursSleep == 600
DailyUpdateHour == 20
DailyUpdateSleep == 3600
ErrorSleep == 60
DaySeconds == 86400
HourSeconds == 3600
NoTime == -1

----------------------------------------------------------------------------
(* Python string primitives *)

LowerChar(c) ==
    CASE c = "R" -> "r"
      [] c = "K" -> "k"
      [] c = "I" -> "i"
      [] c = "A" -> "a"
      [] c = "E" -> "e"
      [] c = "V" -> "v"
      [] c = "S" -> "s"
      [] c = "T" -> "t"
      [] OTHER -> c

StrLower(s) == [i \in 1..Len(s) |-> LowerChar(s[i])]

StrReplaceChar(s, a, b) == [i \in 1..Len(s) |-> IF s[i] = a THEN b ELSE s[i]]

StrRemoveChar(s, a) == SelectSeq(s, LAMBDA c : c # a)

Digits == {"0", "1", "2", "3", "4", "5", "6", "7", "8", "9"}

DigitVal(c) ==
    CASE c = "0" -> 0 [] c = "1" -> 1 [] c = "2" -> 2 [] c = "3" -> 3
      [] c = "4" -> 4 [] c = "5" -> 5 [] c = "6" -> 6 [] c = "7" -> 7
      [] c = "8" -> 8 [] c = "9" -> 9

DigitChar(n) ==
    CASE n = 0 -> "0" [] n = 1 -> "1" [] n = 2 -> "2" [] n = 3 -> "3"
      [] n = 4 -> "4" [] n = 5 -> "5" [] n = 6 -> "6" [] n = 7 -> "7"
      [] n = 8 -> "8" [] n = 9 -> "9"

RECURSIVE DigitsVal(_)
DigitsVal(s) ==
    IF s = <<>> THEN 0
    ELSE 10 * DigitsVal(SubSeq(s, 1, Len(s) - 1)) + DigitVal(s[Len(s)])

RECURSIVE IntStr(_)
IntStr(n) ==
    IF n < 10 THEN <<DigitChar(n)>>
    ELSE IntStr(n \div 10) \o <<DigitChar(n % 10)>>

RECURSIVE StrStrip(_)
StrStrip(s) ==
    IF s = <<>> THEN s
    ELSE IF Head(s) = " " THEN StrStrip(Tail(s))
    ELSE IF s[Len(s)] = " " THEN StrStrip(SubSeq(s, 1, Len(s) - 1))
    ELSE s

(* dict.get(key, default) *)
DictGet(d, key, default) == IF key \in DOMAIN d THEN d[key] ELSE default

----------------------------------------------------------------------------
(* Python values of the raw upstream records: None, str, int *)

PyNone == [t |-> "none"]
PyStr(s) == [t |-> "str", v |-> s]
PyInt(n) == [t |-> "int", v |-> n]

(* truth value of a Python object, as tested by "if x" and "not x" *)
Truthy(x) ==
    CASE x.t = "none" -> FALSE
      [] x.t = "str" -> x.v # <<>>
      [] x.t = "int" -> x.v # 0

(* str(x) *)
PyStrOf(x) ==
    CASE x.t = "none" -> <<"N", "o", "n", "e">>
      [] x.t = "str" -> x.v
      [] x.t = "int" -> IntStr(x.v)

(* float(s) for plain decimal literals: [ok, val], val in hundredths.
   ok = FALSE stands for ValueError. *)
PyFloat(s) ==
    LET signed == s # <<>> /\ Head(s) \in {"+", "-"}
        body   == IF signed THEN Tail(s) ELSE s
        dots   == {i \in 1..Len(body) : body[i] = "."}
        wellFormed ==
            /\ \A i \in 1..Len(body) : body[i] \in Digits \cup {"."}
            /\ Cardinality(dots) <= 1
            /\ \E i \in 1..Len(body) : body[i] \in Digits
        dot    == IF dots = {} THEN Len(body) + 1 ELSE CHOOSE i \in dots : TRUE
        whole  == SubSeq(body, 1, dot - 1)
        frac   == SubSeq(body, dot + 1, Len(body))
        cents  == DigitsVal(SubSeq(frac \o <<"0", "0">>, 1, 2))
        mag    == DigitsVal(whole) * PriceScale + cents
    IN  IF wellFormed
        THEN [ok |-> TRUE, val |-> IF signed /\ Head(s) = "-" THEN 0 - mag ELSE mag]
        ELSE [ok |-> FALSE, val |-> 0]

(* the cleaning chain shared by every price parser of the repository *)
PriceClean(s) ==
    StrStrip(StrRemoveChar(StrReplaceChar(StrRemoveChar(s, "."), ",", "."), "€"))

(* KiaScraper._extract_price *)
ExtractPrice(price_str) ==
    IF ~Truthy(price_str) THEN 0
    ELSE LET f == PyFloat(PriceClean(PyStrOf(price_str)))
         IN  IF f.ok THEN f.val ELSE 0

(* int(year) *)
PyIntOf(x) ==
    CASE x.t = "int" -> [ok |-> TRUE, val |-> x.v]
      [] x.t = "str" ->
            LET s == StrStrip(x.v)
            IN  IF s # <<>> /\ \A i \in 1..Len(s) : s[i] \in Digits
                THEN [ok |-> TRUE, val |-> DigitsVal(s)]
                ELSE [ok |-> FALSE, val |-> 0]
      [] x.t = "none" -> [ok |-> FALSE, val |-> 0]

Kia_ == <<"k", "i", "a", "_">>

(* f"kia_{model.lower().replace(' ', '_')}_{idcoche}" *)
CarIdOf(model, idcoche) ==
    Kia_ \o StrReplaceChar(StrLower(model), " ", "_") \o <<"_">> \o idcoche

NoCar == [ok |-> FALSE]

(* f"{brand} {model} {version}".strip() *)
TitleOf(brand, model, version) ==
    StrStrip(PyStrOf(brand) \o <<" ">> \o PyStrOf(model) \o <<" ">> \o PyStrOf(version))

(* KiaScraper._process_car_data: the document built from a raw record, or
   NoCar when the body raises (the except branch returns None).
   t is the reading of datetime.now(). *)
ProcessCarData(car_data, idcoche, t) ==
    LET model == DictGet(car_data, "modelo", PyStr(<<"U", "n", "k", "n", "o", "w", "n">>))
        brand == DictGet(car_data, "marca", PyStr(<<"K", "I", "A">>))
        price == ExtractPrice(DictGet(car_data, "precio", PyStr(<<"0">>)))
        version == DictGet(car_data, "version", PyStr(<<>>))
        year  == DictGet(car_data, "any", PyInt(CurrentYear))
        yr    == PyIntOf(year)
    IN  IF model.t # "str" THEN NoCar               \* None.lower(): AttributeError
        ELSE IF Truthy(year) /\ ~yr.ok THEN NoCar   \* int(year): ValueError
        ELSE [ok |-> TRUE,
              car |-> [car_id       |-> CarIdOf(model.v, idcoche),
                       idcoche      |-> idcoche,
                       brand        |-> brand,
                       model        |-> model,
                       title        |-> TitleOf(brand, model, version),
                       year         |-> IF Truthy(year) THEN PyInt(yr.val) ELSE PyNone,
                       price        |-> price,
                       is_active    |-> TRUE,
                       last_updated |-> t]]

(* scripts/update_car_details.py process_car_data, up to the dict it builds
   (lines 77-163).  NoCar stands for "return False". *)
ScriptProcessedCar(car_data, car_id, model_name, t) ==
    LET got    == DictGet(car_data, "modelo", PyStr(model_name))
        modelo == IF ~Truthy(got) THEN PyStr(model_name) ELSE got
        brand  == DictGet(car_data, "marca", PyStr(<<"K", "I", "A">>))
        precio == DictGet(car_data, "precio", PyNone)
        f      == PyFloat(PriceClean(precio.v))
        version == DictGet(car_data, "version", PyStr(<<>>))
        any    == DictGet(car_data, "any", PyNone)
        yr     == PyIntOf(any)
    IN  IF DOMAIN car_data = {} THEN NoCar          \* if not car_data
        ELSE IF modelo.t # "str" THEN NoCar         \* int has no lower()
        ELSE IF Truthy(precio) /\ precio.t # "str" THEN NoCar  \* int has no replace()
        ELSE [ok |-> TRUE,
              car |-> [car_id       |-> CarIdOf(modelo.v, car_id),
                       idcoche      |-> car_id,
                       brand        |-> brand,
                       model        |-> modelo,
                       title        |-> TitleOf(brand, modelo, version),
                       year         |-> IF Truthy(any) /\ yr.ok THEN PyInt(yr.val) ELSE PyNone,
                       price        |-> IF Truthy(precio) /\ f.ok THEN f.val ELSE 0,
                       is_active    |-> TRUE,
                       last_updated |-> t]]

(* update_kia_data.py process_car_data, up to the dict it builds
   (lines 333-412): the same normalizer without the "if not car_data" and
   "if not modelo" guards.  NoCar stands for "return False". *)
UpdateKiaProcessedCar(car_data, car_id, model_name, t) ==
    LET modelo == DictGet(car_data, "modelo", PyStr(model_name))
        brand  == DictGet(car_data, "marca", PyStr(<<"K", "I", "A">>))
        precio == DictGet(car_data, "precio", PyNone)
        f      == PyFloat(PriceClean(precio.v))
        version == DictGet(car_data, "version", PyStr(<<>>))
        any    == DictGet(car_data, "any", PyNone)
        yr     == PyIntOf(any)
    IN  IF modelo.t # "str" THEN NoCar              \* None.lower(): AttributeError
        ELSE IF Truthy(precio) /\ precio.t # "str" THEN NoCar  \* int has no replace()
        ELSE [ok |-> TRUE,
              car |-> [car_id       |-> CarIdOf(modelo.v, car_id),
                       idcoche      |-> car_id,
                       brand        |-> brand,
                       model        |-> modelo,
                       title        |-> TitleOf(brand, modelo, version),
                       year         |-> IF Truthy(any) /\ yr.ok THEN PyInt(yr.val) ELSE PyNone,
                       price        |-> IF Truthy(precio) /\ f.ok THEN f.val ELSE 0,
                       is_active    |-> TRUE,
                       last_updated |-> t]]

----------------------------------------------------------------------------
(* The cars collection *)

DocsOf(coll, k) == {d \in coll : d.car_id = k}

CarIds(coll) == {d.car_id : d \in coll}

(* {"$set": s} applied to document d *)
SetFields(d, s) == s @@ d

(* the collection without its unique index *)
NoUniqueCarIdIndex == FALSE

(* create_index("car_id", unique=True), MongoDB.connect *)
UniqueCarIdIndex == TRUE

(* first phase of update_one({"car_id": k}, ...): does a document match *)
UpdateOneMatch(coll, k) == DocsOf(coll, k) # {}

(* second phase of update_one: the write.  matched is the result of the first
   phase; when the key appeared in between, the unique index turns the insert
   into a DuplicateKeyError, which the server either retries as an update
   (retry = TRUE) or raises to the client.
   Result: the collection, whether the call returned, and upserted_id. *)
UpdateOneApply(coll, k, s, matched, upsert, retry) ==
    LET hit == DocsOf(coll, k)
        one == CHOOSE d \in hit : TRUE
        updated == [coll |-> (coll \ {one}) \cup {SetFields(one, s)},
                    ok |-> TRUE, is_new |-> FALSE]
        inserted == [coll |-> coll \cup {s},
                     ok |-> TRUE, is_new |-> TRUE]
        unchanged == [coll |-> coll, ok |-> TRUE, is_new |-> FALSE]
        raised == [coll |-> coll, ok |-> FALSE, is_new |-> FALSE]
    IN  IF matched THEN (IF hit # {} THEN updated ELSE unchanged)
        ELSE IF ~upsert THEN unchanged
        ELSE IF hit = {} THEN inserted
        ELSE IF ~UniqueCarIdIndex THEN inserted
        ELSE IF retry THEN updated
        ELSE raised

(* update_one run without interference between its two phases *)
UpdateOne(coll, k, s, upsert) ==
    UpdateOneApply(coll, k, s, UpdateOneMatch(coll, k), upsert, TRUE)

(* MongoDB.save_car lines 51-55: the document handed to $set *)
SaveCarDoc(car_data, t) ==
    LET stamped == IF "first_seen" \in DOMAIN car_data
                   THEN car_data
                   ELSE car_data @@ ("first_seen" :> t)
    IN  ("last_updated" :> t) @@ ("is_active" :> TRUE) @@ stamped

(* save_car writing with $setOnInsert: an existing document is left alone *)
SaveCarOnInsertOnly(coll, car_data, t) ==
    IF UpdateOneMatch(coll, car_data.car_id)
    THEN [coll |-> coll, ok |-> TRUE, is_new |-> FALSE]
    ELSE UpdateOne(coll, car_data.car_id, SaveCarDoc(car_data, t), TRUE)

(* MongoDB.save_car *)
SaveCar(coll, car_data, t) ==
    UpdateOne(coll, car_data.car_id, SaveCarDoc(car_data, t), TRUE)

(* mark_car_inactive removing the document instead of flagging it *)
MarkCarInactiveDeletes(coll, car_id, t) ==
    [coll |-> coll \ DocsOf(coll, car_id), ok |-> TRUE, is_new |-> FALSE]

(* MongoDB.mark_car_inactive *)
MarkCarInactive(coll, car_id, t) ==
    UpdateOne(coll, car_id,
              ("is_active" :> FALSE) @@ ("inactive_since" :> t), FALSE)

(* MongoDB.get_car_ids_by_model: the idcoche of the active documents of a model *)
GetCarIdsByModel(coll, model) ==
    {d.idcoche : d \in {c \in coll : c.model = PyStr(model) /\ c.is_active}}

----------------------------------------------------------------------------
(* Fallback data of KiaScraper._generate_model_fallback_data *)

KiaModelsPrices ==
    (<<"C", "e", "e", "d">> :> 12999) @@
    (<<"C", "e", "e", "d", " ", "S", "p", "o", "r", "t", "s", "w", "a", "g", "o", "n">> :> 15999) @@
    (<<"E", "V", "6">> :> 28990) @@
    (<<"E", "V", "9">> :> 61000) @@
    (<<"N", "i", "r", "o">> :> 17490) @@
    (<<"N", "i", "r", "o", " ", "E", "V">> :> 21390) @@
    (<<"P", "i", "c", "a", "n", "t", "o">> :> 9990) @@
    (<<"P", "r", "o", "C", "e", "e", "d">> :> 15990) @@
    (<<"R", "i", "o">> :> 12200) @@
    (<<"S", "o", "r", "e", "n", "t", "o">> :> 35390) @@
    (<<"S", "o", "u", "l", " ", "E", "v">> :> 23350) @@
    (<<"S", "p", "o", "r", "t", "a", "g", "e">> :> 17990) @@
    (<<"S", "t", "i", "n", "g", "e", "r">> :> 42950) @@
    (<<"S", "t", "o", "n", "i", "c">> :> 13000) @@
    (<<"X", "C", "e", "e", "d">> :> 15999)

MinYear == 2020
MaxYear == 2025

Min(a, b) == IF a < b THEN a ELSE b

(* hash(s) of a str: salted per process, fixed within a process *)
PyHash(seed, s) == seed * Len(s) + DigitVal(s[Len(s)])

(* f"{hash(model_name + str(i)) % 10000000}" *)
FallbackIdcoche(seed, model_name, i) ==
    IntStr(PyHash(seed, model_name \o IntStr(i)) % HashModulus)

(* the car_data dict built for index i (lines 656-729) *)
FallbackCar(seed, model_name, i, year, t) ==
    LET base_price == IF model_name \in DOMAIN KiaModelsPrices
                      THEN KiaModelsPrices[model_name]
                      ELSE DefaultBasePrice
        idcoche == FallbackIdcoche(seed, model_name, i)
    IN  [car_id       |-> CarIdOf(model_name, idcoche),
         idcoche      |-> idcoche,
         brand        |-> PyStr(<<"K", "I", "A">>),
         model        |-> PyStr(model_name),
         year         |-> PyInt(year),
         price        |-> (base_price + i * 100) * PriceScale,
         is_active    |-> TRUE,
         first_seen   |-> t,
         last_updated |-> t]

(* the loop of _generate_model_fallback_data, indices i..n-1; years[i] is the
   outcome of random.randint(min_year, max_year) *)
RECURSIVE FallbackLoop(_, _, _, _, _, _, _)
FallbackLoop(coll, seed, model_name, i, n, years, t) ==
    IF i >= n THEN coll
    ELSE FallbackLoop(
            SaveCar(coll, FallbackCar(seed, model_name, i, years[i], t), t).coll,
            seed, model_name, i + 1, n, years, t)

GenerateModelFallbackData(coll, seed, model_name, model_count, years, t) ==
    FallbackLoop(coll, seed, model_name, 0, Min(model_count, FallbackCap), years, t)

(* cars_data, the list _generate_model_fallback_data returns *)
GenerateModelFallbackList(seed, model_name, model_count, years, t) ==
    [j \in 1..Min(model_count, FallbackCap) |->
        FallbackCar(seed, model_name, j - 1, years[j - 1], t)]

----------------------------------------------------------------------------
(* Calls of fetch_with_retry made by KiaScraper *)

(* the parameters fetch_with_retry accepts (self aside) *)
FetchWithRetryParams == {"url", "method", "json", "data", "params"}

(* the arguments _fetch_model_cars and _fetch_car_details pass *)
ListingCallArgs == {"url", "method", "data", "headers"}
DetailCallArgs == {"url", "method", "data", "headers"}

(* a call binds when every argument names a parameter; otherwise Python raises
   TypeError at the call, inside the caller's try block *)
CallBinds(args) == args \subseteq FetchWithRetryParams

NoData == [ok |-> FALSE]

(* KiaScraper._fetch_model_cars.  upstream is what the site would answer:
   [ok, listing, detail]; the result is None (NoData) or the decoded body. *)
FetchModelCars(model_name, upstream) ==
    IF ~CallBinds(ListingCallArgs) THEN NoData
    ELSE IF ~upstream.ok THEN NoData
    ELSE [ok |-> TRUE, vehiculos |-> upstream.listing]

(* KiaScraper._fetch_car_details: [coll, car] *)
FetchCarDetails(coll, idcoche, upstream, t) ==
    IF ~CallBinds(DetailCallArgs) THEN [coll |-> coll, car |-> NoCar]
    ELSE IF ~upstream.ok THEN [coll |-> coll, car |-> NoCar]
    ELSE LET r == ProcessCarData(upstream.detail, idcoche, t)
         IN  IF r.ok
             THEN [coll |-> SaveCar(coll, r.car, t).coll, car |-> r]
             ELSE [coll |-> coll, car |-> NoCar]

(* the loop over api_cars of _process_model (lines 184-198) *)
RECURSIVE DetailLoop(_, _, _, _)
DetailLoop(coll, ids, upstream, t) ==
    IF ids = {} THEN coll
    ELSE LET id == CHOOSE x \in ids : TRUE
         IN  DetailLoop(FetchCarDetails(coll, id, upstream, t).coll,
                        ids \ {id}, upstream, t)

(* the loop over the remaining db_car_ids (lines 201-203) *)
RECURSIVE MarkLoop(_, _, _, _)
MarkLoop(coll, model_name, ids, t) ==
    IF ids = {} THEN coll
    ELSE LET id == CHOOSE x \in ids : TRUE
         IN  MarkLoop(MarkCarInactive(coll, CarIdOf(model_name, id), t).coll,
                      model_name, ids \ {id}, t)

(* KiaScraper._process_model: the collection it leaves *)
ProcessModelColl(coll, seed, model_name, model_count, upstream, years, t) ==
    LET model_cars_data == FetchModelCars(model_name, upstream)
    IN  IF ~model_cars_data.ok
        THEN GenerateModelFallbackData(coll, seed, model_name, model_count, years, t)
        ELSE LET api_cars   == model_cars_data.vehiculos
                 db_car_ids == GetCarIdsByModel(coll, model_name)
                 fetched    == DetailLoop(coll, api_cars, upstream, t)
             IN  MarkLoop(fetched, model_name, db_car_ids \ api_cars, t)

----------------------------------------------------------------------------
(* MongoDB.get_cars_by_price_range *)

(* the query with an exclusive upper bound ($lt for $lte) *)
PriceQueryExclusiveMax(coll, min_price, max_price, include_inactive) ==
    {d \in coll : /\ d.price >= min_price * PriceScale
                  /\ d.price < max_price * PriceScale
                  /\ (include_inactive \/ d.is_active)}

PriceQuery(coll, min_price, max_price, include_inactive) ==
    {d \in coll : /\ d.price >= min_price * PriceScale
                  /\ d.price <= max_price * PriceScale
                  /\ (include_inactive \/ d.is_active)}

(* sort("price", 1): every order of the documents with ascending price *)
RECURSIVE SortByPrice(_)
SortByPrice(S) ==
    IF S = {} THEN {<<>>}
    ELSE LET cheapest == {d \in S : \A e \in S : d.price <= e.price}
         IN  UNION {{<<d>> \o rest : rest \in SortByPrice(S \ {d})} : d \in cheapest}

(* limit(n).to_list(length=n) *)
Limit(seq, n) == SubSeq(seq, 1, Min(n, Len(seq)))

GetCarsByPriceRange(coll, min_price, max_price, limit, include_inactive) ==
    {Limit(sorted, limit) :
        sorted \in SortByPrice(PriceQuery(coll, min_price, max_price, include_inactive))}

----------------------------------------------------------------------------
(* The inputs the environment may supply *)

Rio == <<"R", "i", "o">>

ModelNames == {Rio}

SourceIds == {<<"1">>, <<"2">>, <<"3">>}

(* the source id whose record the lifecycle specification follows *)
LifecycleIds == {<<"1">>}

RawRecords ==
    { ("modelo" :> PyStr(Rio)) @@
      ("precio" :> PyStr(<<"1", "2", ".", "2", "0", "0">>)),
      ("marca" :> PyStr(<<"K", "I", "A">>)) @@
      ("modelo" :> PyStr(Rio)) @@
      ("precio" :> PyStr(<<"9", ".", "9", "9", "0", ",", "5", "0", "€">>)) @@
      ("any" :> PyStr(<<"2", "0", "2", "1">>)) }

QueryBounds == {0, 9991, 12200}

Seeds == {0, 1000}

Times == 0..MaxTime

Procs == {"p1", "p2"}

InitStore ==
    /\ cars = {}
    /\ now = 0
    /\ lastOp = [kind |-> "init"]
    /\ hashSeed \in Seeds
    /\ car_ids = {}

InitConc ==
    /\ pc = [p \in Procs |-> "idle"]
    /\ pend = [p \in Procs |-> NoCar]

InitFetch ==
    /\ fPc = "idle"
    /\ fMethod = "GET"
    /\ attempt = 0
    /\ requests = 0
    /\ fLog = <<>>
    /\ fWaits = <<>>
    /\ fResult = <<>>

InitNorm ==
    /\ nIn = <<>>
    /\ nOut = <<>>

InitJobs ==
    /\ gen = [pc |-> "idle", todo |-> <<>>, log |-> <<>>, total |-> 0]
    /\ upd = [pc |-> "idle", which |-> "script", models |-> {}, model |-> <<>>,
              ids |-> {}, planned |-> 0, processed |-> 0, model_processed |-> 0,
              total_updated |-> 0, total_errors |-> 0,
              model_updated |-> 0, model_errors |-> 0]
    /\ sched = [pc |-> "idle", work_hours_only |-> TRUE, clock |-> 0, start_day |-> 0,
                last_daily_update |-> NoTime, is_daily_update |-> FALSE,
                iter_time |-> 0, decision |-> "none", errors |-> 0,
                daily_updates |-> [d \in 0..(MaxDay + 1) |-> 0]]

Init == InitStore /\ InitConc /\ InitFetch /\ InitNorm /\ InitJobs

----------------------------------------------------------------------------
(* Operations on the store, one pipeline at a time *)

(* time passes *)
Tick ==
    /\ now < MaxTime
    /\ now' = now + 1
    /\ lastOp' = [kind |-> "tick"]
    /\ UNCHANGED <<cars, hashSeed, car_ids, concVars, fetchVars, normVars, jobVars>>

(* what an ingestion leaves in lastOp: the key, whether the same normalized
   record was already stored, and the stored first_seen before the call *)
IngestOp(kind, coll, car, res, t) ==
    LET before == DocsOf(coll, car.car_id)
        same(d) == \A f \in {"idcoche", "brand", "model", "year", "price"} : d[f] = car[f]
    IN  [kind |-> kind, car_id |-> car.car_id, ok |-> res.ok, is_new |-> res.is_new,
         time |-> t,
         repeat |-> \E d \in before : same(d),
         was_inactive |-> \E d \in before : ~d.is_active,
         prev_first_seen |-> {d.first_seen : d \in before}]

(* normalize then upsert: _process_car_data followed by save_car
   (_fetch_car_details lines 295-299) *)
IngestRecord(raw, idcoche) ==
    LET r == ProcessCarData(raw, idcoche, now)
        res == SaveCar(cars, r.car, now)
    IN  /\ r.ok
        /\ cars' = res.coll
        /\ lastOp' = IngestOp("save_car", cars, r.car, res, now)
        /\ UNCHANGED <<now, hashSeed, car_ids, concVars, fetchVars, normVars, jobVars>>

(* scripts' process_car_data; t2 is the clock when find_one has answered *)
ScriptProcessCarData(raw, car_id, model_name, t2) ==
    LET r == ScriptProcessedCar(raw, car_id, model_name, now)
        existing == DocsOf(cars, r.car.car_id) # {}
        processed_car == IF existing THEN r.car ELSE r.car @@ ("first_seen" :> t2)
        res == UpdateOne(cars, r.car.car_id, processed_car, TRUE)
    IN  /\ r.ok
        /\ t2 >= now
        /\ cars' = res.coll
        /\ now' = t2
        /\ lastOp' = IngestOp("script", cars, r.car, res, now)
        /\ UNCHANGED <<hashSeed, car_ids, concVars, fetchVars, normVars, jobVars>>

(* a call of MongoDB.mark_car_inactive *)
MarkInactive(car_id) ==
    LET res == MarkCarInactive(cars, car_id, now)
    IN  /\ cars' = res.coll
        /\ lastOp' = [kind |-> "mark", car_id |-> car_id,
                      before |-> DocsOf(cars, car_id)]
        /\ UNCHANGED <<now, hashSeed, car_ids, concVars, fetchVars, normVars, jobVars>>

(* a call of KiaScraper._process_model *)
ProcessModel(model_name, model_count, upstream, years) ==
    /\ cars' = ProcessModelColl(cars, hashSeed, model_name, model_count,
                                upstream, years, now)
    /\ lastOp' = [kind |-> "process_model", model |-> model_name,
                  upstream_ok |-> upstream.ok, listing |-> upstream.listing,
                  listing_ok |-> FetchModelCars(model_name, upstream).ok,
                  known |-> GetCarIdsByModel(cars, model_name)]
    /\ UNCHANGED <<now, hashSeed, car_ids, concVars, fetchVars, normVars, jobVars>>

(* a call of MongoDB.get_cars_by_price_range / CarAggregator.get_cars_by_budget *)
QueryPriceRange(min_price, max_price, limit, include_inactive) ==
    /\ \E result \in GetCarsByPriceRange(cars, min_price, max_price, limit, include_inactive) :
          lastOp' = [kind |-> "query", min_price |-> min_price, max_price |-> max_price,
                     limit |-> limit, include_inactive |-> include_inactive,
                     result |-> result]
    /\ UNCHANGED <<cars, now, hashSeed, car_ids, concVars, fetchVars, normVars, jobVars>>

Upstreams(listings, raws) ==
    {[ok |-> b, listing |-> l, detail |-> raw] :
        b \in BOOLEAN, l \in listings, raw \in raws}

FallbackYears == [0..(MaxCount - 1) -> {MinYear, MaxYear}]

CycleRaws == {raw \in RawRecords : "marca" \in DOMAIN raw}

(* the life of one vehicle record: every operation that writes the store *)
Next ==
    \/ Tick
    \/ \E raw \in RawRecords, id \in LifecycleIds : IngestRecord(raw, id)
    \/ \E raw \in RawRecords, id \in LifecycleIds, m \in ModelNames, t2 \in Times :
          ScriptProcessCarData(raw, id, m, t2)
    \/ \E id \in LifecycleIds, m \in ModelNames : MarkInactive(CarIdOf(m, id))
    \/ \E m \in ModelNames, n \in 0..MaxCount, u \in Upstreams({LifecycleIds}, CycleRaws),
          years \in FallbackYears :
          ProcessModel(m, n, u, years)

Spec == Init /\ [][Next]_vars

(* the vehicles of one model over reconciliation cycles, with the clock
   standing still *)
CycleListings == {{}, SourceIds \ {<<"3">>}, SourceIds}

NextCatalog ==
    \/ \E raw \in CycleRaws, id \in SourceIds : IngestRecord(raw, id)
    \/ \E id \in SourceIds, m \in ModelNames : MarkInactive(CarIdOf(m, id))
    \/ \E m \in ModelNames, n \in 0..MaxCount, u \in Upstreams(CycleListings, CycleRaws),
          years \in FallbackYears :
          ProcessModel(m, n, u, years)

SpecCatalog == Init /\ [][NextCatalog]_vars

(* price range queries over a store filled by ingestion and deactivation *)
NextQuery ==
    \/ \E raw \in RawRecords, id \in SourceIds : IngestRecord(raw, id)
    \/ \E id \in SourceIds, m \in ModelNames : MarkInactive(CarIdOf(m, id))
    \/ \E lo \in QueryBounds, hi \in QueryBounds, n \in 1..MaxLimit, inc \in BOOLEAN :
          QueryPriceRange(lo, hi, n, inc)

SpecQuery == Init /\ [][NextQuery]_vars

----------------------------------------------------------------------------
(* Two pipeline instances whose store calls interleave: every update_one is
   split into its match and its write *)

(* save_car up to the match of its update_one *)
SaveCarStart(p, raw, idcoche) ==
    LET r == ProcessCarData(raw, idcoche, now)
    IN  /\ pc[p] = "idle"
        /\ r.ok
        /\ pc' = [pc EXCEPT ![p] = "write"]
        /\ pend' = [pend EXCEPT ![p] =
                      [ok |-> TRUE, doc |-> SaveCarDoc(r.car, now),
                       matched |-> UpdateOneMatch(cars, r.car.car_id)]]
        /\ lastOp' = [kind |-> "start", proc |-> p]
        /\ UNCHANGED <<cars, now, hashSeed, car_ids, fetchVars, normVars, jobVars>>

(* scripts' process_car_data up to the answer of find_one *)
ScriptFindOne(p, raw, car_id, model_name) ==
    LET r == ScriptProcessedCar(raw, car_id, model_name, now)
    IN  /\ pc[p] = "idle"
        /\ r.ok
        /\ pc' = [pc EXCEPT ![p] = "found"]
        /\ pend' = [pend EXCEPT ![p] =
                      [ok |-> TRUE, doc |-> r.car,
                       existing |-> DocsOf(cars, r.car.car_id) # {}]]
        /\ lastOp' = [kind |-> "find_one", proc |-> p]
        /\ UNCHANGED <<cars, now, hashSeed, car_ids, fetchVars, normVars, jobVars>>

(* scripts' process_car_data from the first_seen stamp to the match of its
   update_one *)
ScriptUpdateStart(p) ==
    LET doc == IF pend[p].existing
               THEN pend[p].doc
               ELSE pend[p].doc @@ ("first_seen" :> now)
    IN  /\ pc[p] = "found"
        /\ pc' = [pc EXCEPT ![p] = "write"]
        /\ pend' = [pend EXCEPT ![p] =
                      [ok |-> TRUE, doc |-> doc,
                       matched |-> UpdateOneMatch(cars, doc.car_id)]]
        /\ lastOp' = [kind |-> "start", proc |-> p]
        /\ UNCHANGED <<cars, now, hashSeed, car_ids, fetchVars, normVars, jobVars>>

(* the write of a pending update_one(..., upsert=True) *)
UpdateWrite(p, retry) ==
    LET doc == pend[p].doc
        res == UpdateOneApply(cars, doc.car_id, doc, pend[p].matched, TRUE, retry)
    IN  /\ pc[p] = "write"
        /\ cars' = res.coll
        /\ pc' = [pc EXCEPT ![p] = "idle"]
        /\ pend' = [pend EXCEPT ![p] = NoCar]
        /\ lastOp' = [kind |-> "write", proc |-> p, ok |-> res.ok,
                      conflict |-> ~pend[p].matched /\ DocsOf(cars, doc.car_id) # {}]
        /\ UNCHANGED <<now, hashSeed, car_ids, fetchVars, normVars, jobVars>>

NextConc ==
    \/ Tick
    \/ \E p \in Procs, raw \in RawRecords, id \in LifecycleIds : SaveCarStart(p, raw, id)
    \/ \E p \in Procs, raw \in RawRecords, id \in LifecycleIds, m \in ModelNames :
          ScriptFindOne(p, raw, id, m)
    \/ \E p \in Procs : ScriptUpdateStart(p)
    \/ \E p \in Procs, retry \in BOOLEAN : UpdateWrite(p, retry)

SpecConc == Init /\ [][NextConc]_vars

(* two runs of the scripts' process_car_data, interleaved *)
NextScripts ==
    \/ Tick
    \/ \E p \in Procs, raw \in RawRecords, id \in LifecycleIds, m \in ModelNames :
          ScriptFindOne(p, raw, id, m)
    \/ \E p \in Procs : ScriptUpdateStart(p)
    \/ \E p \in Procs, retry \in BOOLEAN : UpdateWrite(p, retry)

SpecScripts == Init /\ [][NextScripts]_vars

----------------------------------------------------------------------------
(* BaseScraper.fetch_with_retry *)

(* the loop running one pass too many *)
AttemptRangeOneMore == 1..(MAX_RETRIES + 1)

(* range(1, Config.MAX_RETRIES + 1) *)
AttemptRange == 1..MAX_RETRIES

Methods == {"GET", "POST"}

(* what one attempt can meet: a non-200 status, a 200 with a JSON content
   type, a 200 text body, a 200 text body that starts with '{' or '[', or an
   exception of the session (timeout, connection error) *)
Outcomes == {"status500", "json200", "text200", "bracket200", "raise"}

RECURSIVE Pow2(_)
Pow2(n) == IF n = 0 THEN 1 ELSE 2 * Pow2(n - 1)

(* an attempt ends in "return True, data" *)
Returns(method, outcome) ==
    \/ outcome \in {"json200", "text200"}
    \/ outcome = "bracket200" /\ method = "GET"

(* an attempt leaves the try block through "except Exception": the session
   raised, or the POST branch reached json.loads, where json is the parameter
   of the call and not the module *)
Raises(method, outcome) ==
    \/ outcome = "raise"
    \/ outcome = "bracket200" /\ method = "POST"

(* an except clause that names only the errors of the response handling *)
CaughtOnlyBodyErrors(method, outcome) ==
    Raises(method, outcome) /\ outcome # "raise"

(* "except Exception" (line 138) catches what the session and the body raise:
   timeouts, connection errors, the AttributeError of the POST branch *)
Caught(method, outcome) ==
    Raises(method, outcome)

(* the sleep after a failed attempt (lines 134-136 and 140) *)
Backoff(method, outcome, k) ==
    IF Raises(method, outcome) THEN RETRY_DELAY * k
    ELSE RETRY_DELAY * Pow2(k - 1)

(* a call starts: create_session and entry of the loop *)
FetchStart(method) ==
    /\ fPc = "idle"
    /\ fPc' = IF AttemptRange = {} THEN "done" ELSE "attempt"
    /\ fMethod' = method
    /\ attempt' = IF AttemptRange = {} THEN 0
                  ELSE CHOOSE k \in AttemptRange : \A j \in AttemptRange : k <= j
    /\ requests' = 0
    /\ fLog' = <<>>
    /\ fWaits' = <<>>
    /\ fResult' = IF AttemptRange = {} THEN <<FALSE, "None">> ELSE <<>>
    /\ UNCHANGED <<storeVars, concVars, normVars, jobVars>>

(* one pass of the loop body: the request, its outcome and, when the attempt
   failed, the backoff sleep; after the last pass the call returns
   (False, None) *)
FetchAttempt(outcome) ==
    /\ fPc = "attempt"
    /\ requests' = requests + 1
    /\ fLog' = Append(fLog, outcome)
    /\ IF Returns(fMethod, outcome)
       THEN /\ fPc' = "done"
            /\ fResult' = <<TRUE, outcome>>
            /\ UNCHANGED <<attempt, fWaits>>
       ELSE IF Raises(fMethod, outcome) /\ ~Caught(fMethod, outcome)
       THEN /\ fPc' = "raised"
            /\ UNCHANGED <<attempt, fWaits, fResult>>
       ELSE /\ fWaits' = Append(fWaits, Backoff(fMethod, outcome, attempt))
            /\ IF attempt + 1 \in AttemptRange
               THEN /\ attempt' = attempt + 1
                    /\ UNCHANGED <<fPc, fResult>>
               ELSE /\ fPc' = "done"
                    /\ fResult' = <<FALSE, "None">>
                    /\ UNCHANGED attempt
    /\ UNCHANGED <<fMethod, storeVars, concVars, normVars, jobVars>>

(* the caller takes the result; the scraper is ready for the next call *)
FetchDone ==
    /\ fPc \in {"done", "raised"}
    /\ fPc' = "idle"
    /\ UNCHANGED <<fMethod, attempt, requests, fLog, fWaits, fResult,
                   storeVars, concVars, normVars, jobVars>>

NextFetch ==
    \/ \E m \in Methods : FetchStart(m)
    \/ \E o \in Outcomes : FetchAttempt(o)
    \/ FetchDone

SpecFetch == Init /\ [][NextFetch]_vars

----------------------------------------------------------------------------
(* The car_id built by the two normalizers for pairs of raw records *)

NormBrands == {<<"K", "I", "A">>, <<"S", "E", "A", "T">>}

NormModels == {Rio, <<"r", "i", "o">>, <<"E", "V", " ", "6">>, <<"e", "v", "_", "6">>}

NormIds == {<<"1">>, <<"2">>}

(* the (brand, model, source_id) triples of ingested records *)
Triples == NormBrands \X NormModels \X NormIds

RawOf(triple) == ("marca" :> PyStr(triple[1])) @@ ("modelo" :> PyStr(triple[2]))

(* the car_id _process_car_data builds *)
ScraperCarId(triple) == ProcessCarData(RawOf(triple), triple[3], 0).car.car_id

(* the car_id scripts' process_car_data builds *)
ScriptCarId(triple) == ScriptProcessedCar(RawOf(triple), triple[3], Rio, 0).car.car_id

NormalizePair(a, b, which) ==
    /\ nIn' = <<a, b>>
    /\ nOut' = IF which = "scraper"
               THEN <<ScraperCarId(a), ScraperCarId(b)>>
               ELSE <<ScriptCarId(a), ScriptCarId(b)>>
    /\ UNCHANGED <<storeVars, concVars, fetchVars, jobVars>>

NextNorm ==
    \E a \in Triples, b \in Triples, which \in {"scraper", "script"} :
        NormalizePair(a, b, which)

SpecNorm == Init /\ [][NextNorm]_vars

----------------------------------------------------------------------------
(* Placeholder generation for one model, over repeated calls, with the clock
   standing still *)

Picanto == <<"P", "i", "c", "a", "n", "t", "o">>

FallbackModels == {Picanto, Rio}

(* outcomes of the random.randint(min_year, max_year) draws of one call *)
FallbackYearDraws ==
    {[i \in 0..(FallbackCap - 1) |-> MinYear],
     [i \in 0..(FallbackCap - 1) |-> IF i % 2 = 0 THEN MaxYear ELSE MinYear]}

(* a call of KiaScraper._generate_model_fallback_data *)
GenerateModelFallback(model_name, model_count, years) ==
    /\ cars' = GenerateModelFallbackData(cars, hashSeed, model_name, model_count,
                                         years, now)
    /\ lastOp' = [kind |-> "fallback", model |-> model_name, count |-> model_count,
                  result |-> GenerateModelFallbackList(hashSeed, model_name,
                                                       model_count, years, now)]
    /\ UNCHANGED <<now, hashSeed, car_ids, concVars, fetchVars, normVars, jobVars>>

NextFallback ==
    \E m \in FallbackModels, n \in 0..MaxFallbackCount, years \in FallbackYearDraws :
        GenerateModelFallback(m, n, years)

SpecFallback == Init /\ [][NextFallback]_vars

----------------------------------------------------------------------------
(* The same input handled in two runs of the program: each run is a process
   with its own hash salt, its own clock readings and its own random draws *)

(* what differs between two runs: [seed, t, years]; the clock reading of a
   run is the earliest or the latest one *)
Runs == [seed : Seeds, t : {0, MaxTime}, years : FallbackYearDraws]

(* the car_ids _process_car_data gives a raw record in a run *)
RunScraperCarIds(raw, idcoche, run) ==
    LET r == ProcessCarData(raw, idcoche, run.t)
    IN  IF r.ok THEN {r.car.car_id} ELSE {}

(* the car_ids of the placeholders a fallback generator makes in a run *)
RunFallbackCarIds(model_name, model_count, run) ==
    LET r == GenerateModelFallbackList(run.seed, model_name, model_count,
                                       run.years, run.t)
    IN  {r[i].car_id : i \in 1..Len(r)}

NormalizeInTwoRuns(raw, idcoche, a, b) ==
    /\ nIn' = <<"scraper", raw, idcoche, a, b>>
    /\ nOut' = <<RunScraperCarIds(raw, idcoche, a), RunScraperCarIds(raw, idcoche, b)>>
    /\ UNCHANGED <<storeVars, concVars, fetchVars, jobVars>>

FallbackInTwoRuns(model_name, model_count, a, b) ==
    /\ nIn' = <<"fallback", model_name, model_count, a, b>>
    /\ nOut' = <<RunFallbackCarIds(model_name, model_count, a),
                 RunFallbackCarIds(model_name, model_count, b)>>
    /\ UNCHANGED <<storeVars, concVars, fetchVars, jobVars>>

NextRuns ==
    \/ \E raw \in RawRecords, id \in SourceIds, a \in Runs, b \in Runs :
          NormalizeInTwoRuns(raw, id, a, b)
    \/ \E m \in FallbackModels, n \in 0..MaxCount, a \in Runs, b \in Runs :
          FallbackInTwoRuns(m, n, a, b)

SpecRuns == Init /\ [][NextRuns]_vars

----------------------------------------------------------------------------
(* The normalizers and the price helper applied to raw records whose fields
   are missing, null, malformed or well-formed *)

Absent == [t |-> "absent"]

ModeloInputs == {Absent, PyNone, PyStr(Rio)}

PrecioInputs ==
    {Absent, PyNone, PyStr(<<>>),
     PyStr(<<"1", "2", ".", "9", "9", "9", ",", "0", "0", "€">>),
     PyStr(<<"a", "b", "c">>),
     PyInt(12999)}

AnyInputs ==
    {Absent, PyNone, PyStr(<<"2", "0", "2", "1">>), PyStr(<<"a", "b", "c">>), PyInt(2021)}

VersionInputs == {Absent, PyStr(<<"2", "0", "1", "9">>)}

(* the JSON object with the given fields; an Absent field is left out *)
RawWith(modelo, precio, any, version) ==
    LET given == ("modelo" :> modelo) @@ ("precio" :> precio) @@
                 ("any" :> any) @@ ("version" :> version)
        keys  == {k \in DOMAIN given : given[k] # Absent}
    IN  [k \in keys |-> given[k]]

FieldRecords ==
    {RawWith(m, p, a, v) :
        m \in ModeloInputs, p \in PrecioInputs, a \in AnyInputs, v \in VersionInputs}

(* a call of KiaScraper._extract_price *)
ExtractPriceCall(price_str) ==
    /\ nIn' = <<"extract_price", price_str>>
    /\ nOut' = <<"returned", ExtractPrice(price_str)>>
    /\ lastOp' = [kind |-> "normalize"]
    /\ UNCHANGED <<cars, now, hashSeed, car_ids, concVars, fetchVars, jobVars>>

(* a raw record through one of the three normalizers *)
NormalizeRecord(which, raw, idcoche) ==
    /\ nIn' = <<which, raw, idcoche>>
    /\ nOut' = CASE which = "scraper" ->
                        <<"returned", ProcessCarData(raw, idcoche, now)>>
                 [] which = "script" ->
                        <<"returned", ScriptProcessedCar(raw, idcoche, Rio, now)>>
                 [] which = "kia_data" ->
                        <<"returned", UpdateKiaProcessedCar(raw, idcoche, Rio, now)>>
    /\ lastOp' = [kind |-> "normalize"]
    /\ UNCHANGED <<cars, now, hashSeed, car_ids, concVars, fetchVars, jobVars>>

NextRecord ==
    \/ \E x \in PrecioInputs \ {Absent} : ExtractPriceCall(x)
    \/ \E which \in {"scraper", "script", "kia_data"}, raw \in FieldRecords,
          id \in LifecycleIds :
          NormalizeRecord(which, raw, id)

SpecRecord == Init /\ [][NextRecord]_vars

----------------------------------------------------------------------------
(* The HTTP API: GET /api/cars/{id} *)

(* the methods a KiaScraper object has (its own and those of BaseScraper) *)
KiaScraperMethods ==
    {"fetch_cars", "_fetch_all_models", "_save_models_stats", "_process_model",
     "_fetch_model_cars", "_fetch_car_details", "_process_car_data",
     "_extract_price", "_extract_number", "_generate_fallback_data",
     "_generate_model_fallback_data", "fetch_car_by_id",
     "create_session", "close_session", "get_headers", "fetch_with_retry",
     "process_car_data"}

(* handle_get_car_by_id: the collection it leaves and the response.
   upstream is what the site would answer for this id. *)
HandleGetCarById(coll, car_id, upstream, t) ==
    LET found == DocsOf(coll, car_id)
        r     == FetchCarDetails(coll, car_id, upstream, t)
    IN  IF car_id = <<>>
        THEN [coll |-> coll, status |-> 400, success |-> FALSE, car |-> NoCar]
        ELSE IF found # {}
        THEN [coll |-> coll, status |-> 200, success |-> TRUE,
              car |-> [ok |-> TRUE, car |-> CHOOSE d \in found : TRUE]]
        ELSE IF "fetch_car_details" \notin KiaScraperMethods
        THEN \* AttributeError, caught by "except Exception"
             [coll |-> coll, status |-> 500, success |-> FALSE, car |-> NoCar]
        ELSE IF r.car.ok
        THEN [coll |-> r.coll, status |-> 200, success |-> TRUE, car |-> r.car]
        ELSE [coll |-> r.coll, status |-> 404, success |-> FALSE, car |-> NoCar]

(* a GET /api/cars/{id} request *)
GetCarById(car_id, upstream) ==
    LET res == HandleGetCarById(cars, car_id, upstream, now)
    IN  /\ cars' = res.coll
        /\ lastOp' = [kind |-> "get_car", car_id |-> car_id,
                      stored |-> DocsOf(cars, car_id) # {},
                      upstream_ok |-> upstream.ok,
                      status |-> res.status, success |-> res.success,
                      car |-> res.car]
        /\ UNCHANGED <<now, hashSeed, car_ids, concVars, fetchVars, normVars, jobVars>>

(* the ids a client asks for: stored ones, unknown ones, an empty one *)
RequestIds == {CarIdOf(Rio, id) : id \in SourceIds} \cup {<<>>}

NextApi ==
    \/ \E raw \in RawRecords, id \in LifecycleIds : IngestRecord(raw, id)
    \/ \E id \in LifecycleIds, m \in ModelNames : MarkInactive(CarIdOf(m, id))
    \/ \E k \in RequestIds, u \in Upstreams({{}}, RawRecords) : GetCarById(k, u)

SpecApi == Init /\ [][NextApi]_vars

----------------------------------------------------------------------------
(* The cycle run by KiaScraper.fetch_cars *)

(* an entry of kia_data["modelos"]: name, price text and count text *)
ModelEntry(nombre, precio, disponibles) ==
    [nombre |-> nombre, precio |-> IntStr(precio), disponibles |-> IntStr(disponibles)]

(* kia_data["modelos"] of _generate_fallback_data *)
KiaDataModelos ==
    <<
       ModelEntry(<<"C", "e", "e", "d">>, 12999, 129),
       ModelEntry(<<"C", "e", "e", "d", " ", "S", "p", "o", "r", "t", "s", "w", "a", "g", "o", "n">>,
                  15999, 7),
       ModelEntry(<<"E", "V", "6">>, 28990, 43),
       ModelEntry(<<"E", "V", "9">>, 61000, 6),
       ModelEntry(<<"N", "i", "r", "o">>, 17490, 121),
       ModelEntry(<<"N", "i", "r", "o", " ", "E", "V">>, 21390, 40),
       ModelEntry(<<"P", "i", "c", "a", "n", "t", "o">>, 9990, 57),
       ModelEntry(<<"P", "r", "o", "C", "e", "e", "d">>, 15990, 1),
       ModelEntry(<<"R", "i", "o">>, 12200, 19),
       ModelEntry(<<"S", "o", "r", "e", "n", "t", "o">>, 35390, 20),
       ModelEntry(<<"S", "o", "u", "l", " ", "E", "v">>, 23350, 3),
       ModelEntry(<<"S", "p", "o", "r", "t", "a", "g", "e">>, 17990, 191),
       ModelEntry(<<"S", "t", "i", "n", "g", "e", "r">>, 42950, 1),
       ModelEntry(<<"S", "t", "o", "n", "i", "c">>, 13000, 155),
       ModelEntry(<<"X", "C", "e", "e", "d">>, 15999, 182)
    >>

(* the arguments _fetch_all_models passes to fetch_with_retry *)
IndexCallArgs == {"url", "method", "headers"}

(* KiaScraper._fetch_all_models: None (NoData) or the decoded model index *)
FetchAllModels(upstream) ==
    IF ~CallBinds(IndexCallArgs) THEN NoData
    ELSE IF ~upstream.ok THEN NoData
    ELSE [ok |-> TRUE, modelos |-> KiaDataModelos]

(* the car_data dict _generate_fallback_data builds for index i of a model
   (lines 520-587) *)
CycleFallbackCar(seed, entry, i, year, t) ==
    LET idcoche == FallbackIdcoche(seed, entry.nombre, i)
    IN  [car_id       |-> CarIdOf(entry.nombre, idcoche),
         idcoche      |-> idcoche,
         brand        |-> PyStr(<<"K", "I", "A">>),
         model        |-> PyStr(entry.nombre),
         year         |-> PyInt(year),
         price        |-> ExtractPrice(PyStr(entry.precio)) + i * 100 * PriceScale,
         is_active    |-> TRUE,
         first_seen   |-> t,
         last_updated |-> t]

(* the placeholders of the models that pass the model filter (an empty
   filter passes every model): min(int(disponibles), 5) per model *)
CycleFallbackCars(seed, model_filter, years, t) ==
    UNION {{CycleFallbackCar(seed, KiaDataModelos[m], i, years[i], t) :
                i \in 0..(Min(DigitsVal(KiaDataModelos[m].disponibles), FallbackCap) - 1)} :
           m \in {k \in 1..Len(KiaDataModelos) :
                     \/ model_filter = <<>>
                     \/ StrLower(KiaDataModelos[k].nombre) = StrLower(model_filter)}}

(* save_car applied to each document of a set with distinct car_ids: every
   upsert touches only the stored document with its own car_id *)
SaveAll(coll, docs, t) ==
    {c \in coll : \A d \in docs : c.car_id # d.car_id}
    \cup UNION {SaveCar(DocsOf(coll, d.car_id), d, t).coll : d \in docs}

(* KiaScraper._generate_fallback_data: the collection it leaves and the
   records it returns *)
GenerateFallbackData(coll, seed, model_filter, years, t) ==
    LET all_cars == CycleFallbackCars(seed, model_filter, years, t)
    IN  [coll |-> SaveAll(coll, all_cars, t), result |-> all_cars]

(* the Mongo query of fetch_cars lines 54-63 on one document *)
FetchCarsQuery(d, model_name, filters) ==
    /\ d.model = PyStr(model_name)
    /\ d.is_active
    /\ ("min_price" \in DOMAIN filters => d.price >= filters["min_price"] * PriceScale)
    /\ ("max_price" \in DOMAIN filters => d.price <= filters["max_price"] * PriceScale)

(* fetch_cars going to the fallback whatever car_ids holds *)
FetchCarsAlwaysFallback(coll, ids_coll, seed, filters, years, t) ==
    GenerateFallbackData(coll, seed, DictGet(filters, "model", <<>>), years, t)
        @@ [requests |-> 0]

(* KiaScraper.fetch_cars: the stored active vehicles of the models listed in
   car_ids that pass the filters, or, when car_ids is empty, the fallback.
   requests counts the calls of fetch_with_retry: the method makes none. *)
FetchCars(coll, ids_coll, seed, filters, years, t) ==
    LET model_filter == DictGet(filters, "model", <<>>)
    IN  IF ids_coll # {}
        THEN [coll |-> coll,
              requests |-> 0,
              result |-> {d \in coll :
                            \E m \in ids_coll :
                                /\ \/ model_filter = <<>>
                                   \/ StrLower(m.model) = StrLower(model_filter)
                                /\ FetchCarsQuery(d, m.model, filters)}]
        ELSE GenerateFallbackData(coll, seed, model_filter, years, t)
                 @@ [requests |-> 0]

(* collect_car_ids.save_car_ids: nothing is stored for an empty id list *)
SaveCarIdsColl(ids_coll, model_name, ids) ==
    IF ids = {} THEN ids_coll
    ELSE {m \in ids_coll : m.model # model_name} \cup {[model |-> model_name, ids |-> ids]}

(* the collector script stores the ids it found for a model *)
SaveCarIds(model_name, ids) ==
    /\ car_ids' = SaveCarIdsColl(car_ids, model_name, ids)
    /\ lastOp' = [kind |-> "save_car_ids", model |-> model_name, ids |-> ids]
    /\ UNCHANGED <<cars, now, hashSeed, concVars, fetchVars, normVars, jobVars>>

(* one cycle: a call of fetch_cars.  upstream is what the site would answer
   to the model index request. *)
FetchCarsCycle(filters, upstream, years) ==
    LET res == FetchCars(cars, car_ids, hashSeed, filters, years, now)
    IN  /\ cars' = res.coll
        /\ lastOp' = [kind |-> "fetch_cars", filters |-> filters,
                      index_ok |-> FetchAllModels(upstream).ok,
                      ids_known |-> car_ids # {},
                      before |-> cars,
                      requests |-> res.requests,
                      result |-> res.result]
        /\ UNCHANGED <<now, hashSeed, car_ids, concVars, fetchVars, normVars, jobVars>>

(* the filters dict of a call: none, a model in another letter case, a price
   range *)
CycleFilters ==
    {<<>>,
     ("model" :> <<"r", "i", "o">>),
     ("min_price" :> 9991) @@ ("max_price" :> 12200)}

(* the random years of the placeholders of a cycle *)
CycleYearDraws == {y \in FallbackYearDraws : y[0] = MinYear}

NextCycle ==
    \/ \E raw \in RawRecords, id \in LifecycleIds : IngestRecord(raw, id)
    \/ \E id \in LifecycleIds, m \in ModelNames : MarkInactive(CarIdOf(m, id))
    \/ \E m \in ModelNames, ids \in SUBSET LifecycleIds : SaveCarIds(m, ids)
    \/ \E f \in CycleFilters, u \in Upstreams({{}}, CycleRaws), years \in CycleYearDraws :
          FetchCarsCycle(f, u, years)

SpecCycle == Init /\ [][NextCycle]_vars

----------------------------------------------------------------------------
(* Store calls that fail inside the store, and the save loop of
   _generate_fallback_data taken one record at a time *)

(* save_car with no except clause: the error of update_one leaves the call *)
SaveCarRaises(coll, car_data, t, store_up) ==
    IF store_up THEN SaveCar(coll, car_data, t) @@ [raised |-> FALSE]
    ELSE [coll |-> coll, ok |-> FALSE, is_new |-> FALSE, raised |-> TRUE]

(* MongoDB.save_car when update_one may raise (the store is down): the
   except clause of lines 72-74 returns (False, False) *)
SaveCarResult(coll, car_data, t, store_up) ==
    IF store_up THEN SaveCar(coll, car_data, t) @@ [raised |-> FALSE]
    ELSE [coll |-> coll, ok |-> FALSE, is_new |-> FALSE, raised |-> FALSE]

(* MongoDB.mark_car_inactive when update_one may raise: the except clause of
   lines 88-90 returns False *)
MarkCarInactiveResult(coll, car_id, t, store_up) ==
    IF store_up THEN MarkCarInactive(coll, car_id, t) @@ [raised |-> FALSE]
    ELSE [coll |-> coll, ok |-> FALSE, is_new |-> FALSE, raised |-> FALSE]

(* the car_data dicts of _generate_fallback_data in the order of its loops,
   from model k of kia_data["modelos"] on *)
RECURSIVE CycleFallbackSeq(_, _, _, _, _)
CycleFallbackSeq(seed, model_filter, years, t, k) ==
    IF k > Len(KiaDataModelos) THEN <<>>
    ELSE LET entry == KiaDataModelos[k]
             n == Min(DigitsVal(entry.disponibles), FallbackCap)
             mine == IF model_filter # <<>> /\ StrLower(entry.nombre) # StrLower(model_filter)
                     THEN <<>>
                     ELSE [j \in 1..n |-> CycleFallbackCar(seed, entry, j - 1, years[j - 1], t)]
         IN  mine \o CycleFallbackSeq(seed, model_filter, years, t, k + 1)

(* fetch_cars({"model": model_filter}) with car_ids empty enters the loops of
   _generate_fallback_data *)
GenStart(model_filter, years) ==
    LET todo == CycleFallbackSeq(hashSeed, model_filter, years, now, 1)
    IN  /\ gen.pc = "idle"
        /\ car_ids = {}
        /\ gen' = [pc |-> IF todo = <<>> THEN "done" ELSE "loop",
                   todo |-> todo, log |-> <<>>, total |-> Len(todo)]
        /\ lastOp' = [kind |-> "gen_start"]
        /\ UNCHANGED <<cars, now, hashSeed, car_ids, concVars, fetchVars, normVars,
                       upd, sched>>

(* one pass of the inner loop: all_cars.append and save_car (lines 589-594);
   store_up tells whether update_one answers *)
GenSave(store_up) ==
    LET car_data == Head(gen.todo)
        res == SaveCarResult(cars, car_data, now, store_up)
    IN  /\ gen.pc = "loop"
        /\ cars' = res.coll
        /\ gen' = [gen EXCEPT
                     !.pc = IF res.raised THEN "aborted"
                            ELSE IF Tail(gen.todo) = <<>> THEN "done" ELSE "loop",
                     !.todo = Tail(gen.todo),
                     !.log = Append(gen.log, [car_id |-> car_data.car_id, ok |-> res.ok])]
        /\ lastOp' = [kind |-> "store_call", op |-> "save_car", store_up |-> store_up,
                      ok |-> res.ok, before |-> cars]
        /\ UNCHANGED <<now, hashSeed, car_ids, concVars, fetchVars, normVars,
                       upd, sched>>

(* _generate_fallback_data returns, or its caller gets the exception *)
GenReturn ==
    /\ gen.pc \in {"done", "aborted"}
    /\ gen' = [gen EXCEPT !.pc = "idle"]
    /\ lastOp' = [kind |-> "gen_return"]
    /\ UNCHANGED <<cars, now, hashSeed, car_ids, concVars, fetchVars, normVars,
                   upd, sched>>

(* a call of MongoDB.mark_car_inactive when update_one may raise *)
MarkInactiveCall(car_id, store_up) ==
    LET res == MarkCarInactiveResult(cars, car_id, now, store_up)
    IN  /\ cars' = res.coll
        /\ lastOp' = [kind |-> "store_call", op |-> "mark_car_inactive",
                      store_up |-> store_up, ok |-> res.ok, before |-> cars]
        /\ UNCHANGED <<now, hashSeed, car_ids, concVars, fetchVars, normVars, jobVars>>

SoulEv == <<"S", "o", "u", "l", " ", "E", "v">>

GenFilters == {<<"s", "t", "i", "n", "g", "e", "r">>, StrLower(SoulEv)}

NextGen ==
    \/ \E f \in GenFilters, years \in FallbackYearDraws : GenStart(f, years)
    \/ \E up \in BOOLEAN : GenSave(up)
    \/ GenReturn
    \/ \E up \in BOOLEAN : MarkInactiveCall(CarIdOf(SoulEv, FallbackIdcoche(hashSeed, SoulEv, 0)), up)

SpecGen == Init /\ [][NextGen]_vars

----------------------------------------------------------------------------
(* The detail-update loop of the update scripts:
   scripts/update_car_details.py main and update_kia_data.py update_car_details.
   The id collector fills car_ids between runs of the loop. *)

(* what the detail request of one id can meet: an exception of the session,
   a non-200 status, a body that is not JSON, or a decoded JSON object *)
DetailResponses ==
    {[kind |-> "raise"], [kind |-> "status"], [kind |-> "undecodable"]}
    \cup {[kind |-> "json", body |-> raw] :
             raw \in {<<>>,
                      ("modelo" :> PyStr(Rio)) @@ ("precio" :> PyStr(<<"1", "2", ".", "2", "0", "0">>)),
                      ("modelo" :> PyStr(Rio)) @@ ("precio" :> PyInt(12200))}}

(* process_car_data of the script named by which: the collection it leaves
   and its return value *)
ProcessCarDataCall(which, coll, car_data, car_id, model_name, t) ==
    LET r == IF which = "script"
             THEN ScriptProcessedCar(car_data, car_id, model_name, t)
             ELSE UpdateKiaProcessedCar(car_data, car_id, model_name, t)
        existing == DocsOf(coll, r.car.car_id) # {}
        processed_car == IF existing THEN r.car ELSE r.car @@ ("first_seen" :> t)
    IN  IF ~r.ok THEN [coll |-> coll, success |-> FALSE]
        ELSE [coll |-> UpdateOne(coll, r.car.car_id, processed_car, TRUE).coll,
              success |-> TRUE]

(* the loop body for one id: the request, process_car_data when a truthy
   object came back, and whether the id counts as updated *)
UpdateOneId(which, coll, response, car_id, model_name, t) ==
    IF response.kind # "json" THEN [coll |-> coll, success |-> FALSE]
    ELSE IF DOMAIN response.body = {} THEN [coll |-> coll, success |-> FALSE]
    ELSE ProcessCarDataCall(which, coll, response.body, car_id, model_name, t)

(* counters that forget the per-model error count *)
CountIdNoModelErrors(u, success) ==
    IF success
    THEN [u EXCEPT !.model_updated = @ + 1, !.total_updated = @ + 1]
    ELSE [u EXCEPT !.total_errors = @ + 1]

(* the counter updates of the loop body *)
CountId(u, success) ==
    IF success
    THEN [u EXCEPT !.model_updated = @ + 1, !.total_updated = @ + 1]
    ELSE [u EXCEPT !.model_errors = @ + 1, !.total_errors = @ + 1]

RECURSIVE SumIds(_)
SumIds(models) ==
    IF models = {} THEN 0
    ELSE LET m == CHOOSE x \in models : TRUE
         IN  Cardinality(m.ids) + SumIds(models \ {m})

(* the script starts: car_ids_collection.find(), counters at zero *)
UpdStart(which) ==
    /\ upd.pc = "idle"
    /\ upd' = [pc |-> "models", which |-> which, models |-> car_ids, model |-> <<>>,
               ids |-> {}, planned |-> SumIds(car_ids), processed |-> 0,
               model_processed |-> 0,
               total_updated |-> 0, total_errors |-> 0,
               model_updated |-> 0, model_errors |-> 0]
    /\ lastOp' = [kind |-> "upd_start"]
    /\ UNCHANGED <<cars, now, hashSeed, car_ids, concVars, fetchVars, normVars,
                   gen, sched>>

(* the outer loop takes the next model, or ends *)
UpdNextModel ==
    /\ upd.pc = "models"
    /\ IF upd.models = {}
       THEN upd' = [upd EXCEPT !.pc = "done"]
       ELSE \E m \in upd.models :
               upd' = [upd EXCEPT !.pc = "ids", !.models = @ \ {m},
                                  !.model = m.model, !.ids = m.ids,
                                  !.model_processed = 0,
                                  !.model_updated = 0, !.model_errors = 0]
    /\ lastOp' = [kind |-> "upd_model"]
    /\ UNCHANGED <<cars, now, hashSeed, car_ids, concVars, fetchVars, normVars,
                   gen, sched>>

(* the inner loop handles one id, or ends for this model *)
UpdId(response) ==
    /\ upd.pc = "ids"
    /\ IF upd.ids = {}
       THEN /\ upd' = [upd EXCEPT !.pc = "models"]
            /\ lastOp' = [kind |-> "upd_model_end"]
            /\ UNCHANGED cars
       ELSE \E car_id \in upd.ids :
               LET res == UpdateOneId(upd.which, cars, response, car_id, upd.model, now)
                   counted == CountId(upd, res.success)
               IN  /\ cars' = res.coll
                   /\ upd' = [counted EXCEPT !.ids = @ \ {car_id},
                                            !.processed = @ + 1,
                                            !.model_processed = @ + 1]
                   /\ lastOp' = [kind |-> "upd_id", response |-> response.kind,
                                 success |-> res.success]
    /\ UNCHANGED <<now, hashSeed, car_ids, concVars, fetchVars, normVars, gen, sched>>

(* the script ends *)
UpdDone ==
    /\ upd.pc = "done"
    /\ upd' = [upd EXCEPT !.pc = "idle"]
    /\ lastOp' = [kind |-> "upd_done"]
    /\ UNCHANGED <<cars, now, hashSeed, car_ids, concVars, fetchVars, normVars,
                   gen, sched>>

UpdateModels == {Rio, Picanto}

UpdateIds == {<<"1">>, <<"2">>}

NextUpdate ==
    \/ \E m \in UpdateModels, ids \in SUBSET UpdateIds :
          upd.pc = "idle" /\ SaveCarIds(m, ids)
    \/ \E which \in {"script", "kia_data"} : UpdStart(which)
    \/ UpdNextModel
    \/ \E response \in DetailResponses : UpdId(response)
    \/ UpdDone

SpecUpdate == Init /\ [][NextUpdate]_vars

----------------------------------------------------------------------------
(* CarAggregator.run_continuous.  The clock is Madrid local time in seconds
   since midnight of day 0. *)

(* current_time.date(), current_time.hour, current_time.time() *)
DateOf(clock) == clock \div DaySeconds

HourOf(clock) == (clock % DaySeconds) \div HourSeconds

TimeOf(clock) == clock % DaySeconds

(* work hours that end before 18:00 *)
IsWorkHoursBeforeEnd(clock) ==
    TimeOf(clock) >= work_hours_start /\ TimeOf(clock) < work_hours_end

(* CarAggregator._is_work_hours *)
IsWorkHours(clock) ==
    TimeOf(clock) >= work_hours_start /\ TimeOf(clock) <= work_hours_end

(* the test of lines 124-125 *)
DailyUpdateDue(last_daily_update, clock) ==
    \/ last_daily_update = NoTime
    \/ /\ DateOf(clock) > DateOf(last_daily_update)
       /\ HourOf(clock) >= DailyUpdateHour

(* run_continuous is called *)
SchedStart(work_hours_only, t0) ==
    /\ sched.pc = "idle"
    /\ sched' = [sched EXCEPT !.pc = "top", !.work_hours_only = work_hours_only,
                              !.clock = t0, !.start_day = DateOf(t0)]
    /\ lastOp' = [kind |-> "sched_start"]
    /\ UNCHANGED <<cars, now, hashSeed, car_ids, concVars, fetchVars, normVars,
                   gen, upd>>

(* the top of one iteration (lines 112-128): outside work hours sleep ten
   minutes and start over; otherwise decide whether this is the daily update
   and go on to run_scrapers *)
SchedCheck ==
    LET t == sched.clock
        due == DailyUpdateDue(sched.last_daily_update, t)
    IN  /\ sched.pc = "top"
        /\ DateOf(t) <= MaxDay
        /\ IF sched.work_hours_only /\ ~IsWorkHours(t)
           THEN sched' = [sched EXCEPT !.clock = t + OffHoursSleep,
                                      !.iter_time = t, !.decision = "sleep"]
           ELSE sched' = [sched EXCEPT
                            !.pc = "scrape", !.iter_time = t, !.decision = "scrape",
                            !.is_daily_update = due,
                            !.last_daily_update = IF due THEN t ELSE @,
                            !.daily_updates[DateOf(t)] = IF due THEN @ + 1 ELSE @]
        /\ lastOp' = [kind |-> "sched_check"]
        /\ UNCHANGED <<cars, now, hashSeed, car_ids, concVars, fetchVars, normVars,
                       gen, upd>>

(* run_scrapers and the sleep after it (lines 130-153): duration is the time
   the cycle took, raises tells whether an exception left the try block *)
SchedScrape(duration, raises) ==
    /\ sched.pc = "scrape"
    /\ raises => sched.errors < MaxErrors
    /\ sched' = [sched EXCEPT
                   !.pc = "top",
                   !.errors = IF raises THEN @ + 1 ELSE @,
                   !.clock = @ + duration +
                             (IF raises THEN ErrorSleep
                              ELSE IF sched.is_daily_update THEN DailyUpdateSleep
                              ELSE CHECK_INTERVAL)]
    /\ lastOp' = [kind |-> "sched_scrape", raises |-> raises]
    /\ UNCHANGED <<cars, now, hashSeed, car_ids, concVars, fetchVars, normVars,
                   gen, upd>>

(* when the loop is started: at night, just before and at 09:00, at 18:00,
   half a minute after 18:00, in the evening *)
StartTimes == {0, 32340, 32400, 64800, 64830, 75600}

CycleDurations == {0, 600}

NextSched ==
    \/ \E w \in BOOLEAN, t0 \in StartTimes : SchedStart(w, t0)
    \/ SchedCheck
    \/ \E d \in CycleDurations, r \in BOOLEAN : SchedScrape(d, r)

SpecSched == Init /\ [][NextSched]_vars

----------------------------------------------------------------------------
(* Properties *)

(* C1: ingesting the same raw record a second time (normalize then upsert)
   leaves exactly one stored vehicle for its car_id, whose first_seen is the
   one stored before and whose last_updated is the time of the second
   ingestion. *)
ClaimC1 ==
    (lastOp.kind \in {"save_car", "script"} /\ lastOp.repeat) =>
        /\ Cardinality(DocsOf(cars, lastOp.car_id)) = 1
        /\ \A d \in DocsOf(cars, lastOp.car_id) :
              /\ {d.first_seen} = lastOp.prev_first_seen
              /\ d.last_updated = lastOp.time

(* C2: after _process_model for a model whose active stored source ids are
   {1,2,3} and whose upstream listing holds only {1,2}, the record of 3 is
   inactive with inactive_since set and the records of 1 and 2 are active. *)
ClaimC2 ==
    (/\ lastOp.kind = "process_model"
     /\ lastOp.upstream_ok
     /\ lastOp.known = SourceIds
     /\ lastOp.listing = SourceIds \ {<<"3">>}) =>
        /\ \A d \in DocsOf(cars, CarIdOf(lastOp.model, <<"3">>)) :
              ~d.is_active /\ "inactive_since" \in DOMAIN d
        /\ \A id \in lastOp.listing :
              \A d \in DocsOf(cars, CarIdOf(lastOp.model, id)) : d.is_active

(* C3: two ingested records get the same car_id exactly when they share
   (brand, model, source_id). *)
ClaimC3 ==
    nIn # <<>> => ((nIn[1] = nIn[2]) <=> (nOut[1] = nOut[2]))

(* C4: a call of fetch_with_retry never issues more than MAX_RETRIES requests,
   and a call that met HTTP 500 on every request has issued exactly
   MAX_RETRIES requests and returned (False, None). *)
TheoremC4 ==
    /\ requests <= MAX_RETRIES
    /\ (fPc = "done" /\ \A i \in 1..Len(fLog) : fLog[i] = "status500") =>
          /\ requests = MAX_RETRIES
          /\ fResult = <<FALSE, "None">>

WitnessC4 ==
    /\ fPc = "done"
    /\ Len(fLog) = MAX_RETRIES
    /\ \A i \in 1..Len(fLog) : fLog[i] = "status500"
    /\ fResult = <<FALSE, "None">>

(* C5: no step removes a car_id from the store. *)
TheoremC5 == [][CarIds(cars) \subseteq CarIds(cars')]_vars

WitnessC5 ==
    /\ Cardinality(CarIds(cars)) >= 2
    /\ \E d \in cars : ~d.is_active
    /\ lastOp.kind = "process_model"

(* C6: every stored vehicle that has both timestamps has
   first_seen <= last_updated. *)
ClaimC6 ==
    \A d \in cars :
        {"first_seen", "last_updated"} \subseteq DOMAIN d =>
            d.first_seen <= d.last_updated

(* C7: after a successful save_car the record of that car_id exists and is
   active, also when it had been deactivated before. *)
TheoremC7 ==
    (lastOp.kind = "save_car" /\ lastOp.ok) =>
        /\ DocsOf(cars, lastOp.car_id) # {}
        /\ \A d \in DocsOf(cars, lastOp.car_id) : d.is_active

WitnessC7 ==
    /\ lastOp.kind = "save_car"
    /\ lastOp.ok
    /\ lastOp.was_inactive
    /\ \E d \in DocsOf(cars, lastOp.car_id) : "inactive_since" \in DOMAIN d

(* C8: mark_car_inactive on a vehicle that is already inactive leaves its
   record unchanged (inactive_since keeps the time of the first
   deactivation). *)
ClaimC8 ==
    (lastOp.kind = "mark" /\ \E d \in lastOp.before : ~d.is_active) =>
        DocsOf(cars, lastOp.car_id) = lastOp.before

(* C9: the store holds at most one vehicle record per car_id, whatever the
   interleaving of the upserts of two pipeline instances. *)
TheoremC9 ==
    \A k \in CarIds(cars) : Cardinality(DocsOf(cars, k)) = 1

WitnessC9 ==
    /\ lastOp.kind = "write"
    /\ lastOp.conflict
    /\ cars # {}

(* C10: get_cars_by_price_range returns stored vehicles with
   min <= price <= max, both bounds included, in ascending price order, the
   cheapest min(limit, number of matches) of them, and no inactive vehicle
   unless include_inactive. *)
TheoremC10 ==
    lastOp.kind = "query" =>
        LET r == lastOp.result
            lo == lastOp.min_price * PriceScale
            hi == lastOp.max_price * PriceScale
            wanted == {d \in cars : /\ lo <= d.price
                                    /\ d.price <= hi
                                    /\ (lastOp.include_inactive \/ d.is_active)}
            got == {r[i] : i \in 1..Len(r)}
        IN  /\ got \subseteq wanted
            /\ \A i \in 1..Len(r) : \A j \in i..Len(r) : r[i].price <= r[j].price
            /\ Len(r) <= lastOp.limit
            /\ Cardinality(got) = Len(r)
            /\ Len(r) = Min(lastOp.limit, Cardinality(wanted))
            /\ \A d \in wanted \ got : \A e \in got : e.price <= d.price

WitnessC10 ==
    /\ lastOp.kind = "query"
    /\ ~lastOp.include_inactive
    /\ Len(lastOp.result) = 2
    /\ lastOp.result[1].price < lastOp.result[2].price
    /\ lastOp.result[2].price = lastOp.max_price * PriceScale
    /\ \E d \in cars : /\ ~d.is_active
                       /\ d.price >= lastOp.min_price * PriceScale
                       /\ d.price <= lastOp.max_price * PriceScale

(* C11: a fallback generation for a model with count N and model-level price P
   yields exactly N placeholder records, all stored, each with price P. *)
ClaimC11 ==
    lastOp.kind = "fallback" =>
        LET r == lastOp.result
        IN  /\ Len(r) = lastOp.count
            /\ Cardinality({r[i].car_id : i \in 1..Len(r)}) = lastOp.count
            /\ \A i \in 1..Len(r) :
                  /\ r[i].price = KiaModelsPrices[lastOp.model] * PriceScale
                  /\ DocsOf(cars, r[i].car_id) # {}

(* C12: two runs on the same input yield the same set of car_ids, for records
   of _process_car_data and for placeholders of the fallback generators. *)
ClaimC12 ==
    nIn # <<>> => nOut[1] = nOut[2]

(* C13: price parsing never fails.  The helper gives 12999.00 for
   "12.999,00€" and 0 for "", None and non-numeric text; a normalizer given
   a record that is well-formed apart from its price keeps the record, with
   price 0 when the price is absent, empty, null or non-numeric. *)
ClaimC13 ==
    LET euro == PyStr(<<"1", "2", ".", "9", "9", "9", ",", "0", "0", "€">>)
        zero == {PyNone, PyStr(<<>>), PyStr(<<"a", "b", "c">>)}
    IN  /\ (nIn # <<>> /\ nIn[1] = "extract_price") =>
              /\ nIn[2] = euro => nOut[2] = 12999 * PriceScale
              /\ nIn[2] \in zero => nOut[2] = 0
        /\ (nIn # <<>> /\ nIn[1] \in {"scraper", "script"}
                /\ "modelo" \in DOMAIN nIn[2] /\ nIn[2]["modelo"] = PyStr(Rio)
                /\ "any" \in DOMAIN nIn[2] /\ nIn[2]["any"] = PyInt(2021)) =>
              /\ nOut[2].ok
              /\ DictGet(nIn[2], "precio", PyNone) = euro =>
                    nOut[2].car.price = 12999 * PriceScale
              /\ DictGet(nIn[2], "precio", PyNone) \in zero =>
                    nOut[2].car.price = 0

(* C19: _process_car_data and update_kia_data's process_car_data return a
   vehicle for every raw record, whatever fields are missing, null or
   malformed (the source id is handed over separately and is always usable). *)
ClaimC19 ==
    (nIn # <<>> /\ nIn[1] \in {"scraper", "kia_data"}) => nOut[2].ok

(* C20: the normalized year is the explicit year field when it is present and
   numeric, otherwise the first 4-digit sequence of the title, otherwise
   null. *)
ClaimC20 ==
    (nIn # <<>> /\ nIn[1] \in {"scraper", "script"} /\ nOut[2].ok) =>
        LET any      == DictGet(nIn[2], "any", PyNone)
            car      == nOut[2].car
            title    == car.title
            starts   == {i \in 1..(Len(title) - 3) :
                            \A j \in i..(i + 3) : title[j] \in Digits}
            first    == CHOOSE i \in starts : \A j \in starts : i <= j
            expected == IF PyIntOf(any).ok THEN PyInt(PyIntOf(any).val)
                        ELSE IF starts # {}
                             THEN PyInt(DigitsVal(SubSeq(title, first, first + 3)))
                             ELSE PyNone
        IN  car.year = expected

(* C14: GET /api/cars/{id} for an id that is neither stored nor known
   upstream answers 404 with success = false; for a stored id it answers with
   success = true and the stored vehicle. *)
ClaimC14 ==
    (lastOp.kind = "get_car" /\ lastOp.car_id # <<>>) =>
        /\ (~lastOp.stored /\ ~lastOp.upstream_ok) =>
              (lastOp.status = 404 /\ ~lastOp.success)
        /\ lastOp.stored =>
              /\ lastOp.status = 200
              /\ lastOp.success
              /\ lastOp.car.ok
              /\ lastOp.car.car \in DocsOf(cars, lastOp.car_id)

(* C15: when the listing of a model could not be fetched or parsed,
   _process_model reconciles against the empty set: every vehicle of the
   model that was active in the store is inactive afterwards. *)
ClaimC15 ==
    (lastOp.kind = "process_model" /\ ~lastOp.listing_ok) =>
        \A id \in lastOp.known :
            \A d \in DocsOf(cars, CarIdOf(lastOp.model, id)) : ~d.is_active

(* C16: a cycle of fetch_cars in which the model index cannot be obtained
   returns nothing and leaves the store as it was. *)
ClaimC16 ==
    (lastOp.kind = "fetch_cars" /\ ~lastOp.index_ok) =>
        /\ lastOp.result = {}
        /\ cars = lastOp.before

(* C17: the wait after failed attempt k of fetch_with_retry is
   RETRY_DELAY * 2^(k-1), for a non-200 status and for an exception alike. *)
ClaimC17 ==
    \A k \in 1..Len(fWaits) : fWaits[k] = RETRY_DELAY * Pow2(k - 1)

(* C18: in fetch_with_retry no exception of an attempt reaches the caller;
   every failed attempt, raising or not, uses up one attempt and is followed
   by the next one while attempts remain; a call whose last attempt failed
   has made MAX_RETRIES attempts and returned (False, None). *)
TheoremC18 ==
    /\ fPc # "raised"
    /\ fPc = "attempt" => attempt = Len(fLog) + 1
    /\ (fPc = "done" /\ fLog # <<>> /\ ~Returns(fMethod, fLog[Len(fLog)])) =>
          /\ Len(fLog) = MAX_RETRIES
          /\ fResult = <<FALSE, "None">>

WitnessC18 ==
    /\ fPc = "done"
    /\ Len(fLog) = MAX_RETRIES
    /\ \E i \in 1..Len(fLog) : fLog[i] = "raise"
    /\ \E i \in 1..Len(fLog) : fLog[i] = "status500"
    /\ \E i \in 1..Len(fLog) : fLog[i] = "bracket200"
    /\ fResult = <<FALSE, "None">>

(* C21: after the collector has handled a model, every stored car_ids
   document of that model holds exactly the ids observed in that cycle, also
   when none was observed, and a non-empty observed set is stored. *)
ClaimC21 ==
    lastOp.kind = "save_car_ids" =>
        /\ \A m \in car_ids : m.model = lastOp.model => m.ids = lastOp.ids
        /\ lastOp.ids # {} => \E m \in car_ids : m.model = lastOp.model

(* C24: a stored vehicle with is_active = true carries no inactive_since. *)
ClaimC24 ==
    \A d \in cars : d.is_active => "inactive_since" \notin DOMAIN d

(* C25: an attempt of fetch_with_retry that receives HTTP 200 (a JSON body,
   a text body, or a text body starting with '{' or '[') is the last request
   of the call, and the call returns (True, body). *)
ClaimC25 ==
    \A i \in 1..Len(fLog) :
        fLog[i] \in {"json200", "text200", "bracket200"} =>
            /\ i = Len(fLog)
            /\ fPc # "attempt"
            /\ fResult = <<TRUE, fLog[i]>>

(* C27: when runs of the scripts' process_car_data interleave, no step
   replaces the first_seen a stored vehicle already has. *)
ClaimC27 ==
    [][\A d \in cars : \A e \in cars' :
          (d.car_id = e.car_id /\ "first_seen" \in DOMAIN d) =>
              ("first_seen" \in DOMAIN e /\ e.first_seen = d.first_seen)]_vars

(* C26: with a non-empty car_ids collection fetch_cars makes no upstream
   request, leaves the vehicle store as it was, and returns only stored
   active vehicles whose model and price pass the filters. *)
TheoremC26 ==
    (lastOp.kind = "fetch_cars" /\ lastOp.ids_known) =>
        /\ lastOp.requests = 0
        /\ cars = lastOp.before
        /\ \A d \in lastOp.result :
              /\ d \in lastOp.before
              /\ d.is_active
              /\ "model" \in DOMAIN lastOp.filters =>
                    StrLower(d.model.v) = StrLower(lastOp.filters["model"])
              /\ "min_price" \in DOMAIN lastOp.filters =>
                    d.price >= lastOp.filters["min_price"] * PriceScale
              /\ "max_price" \in DOMAIN lastOp.filters =>
                    d.price <= lastOp.filters["max_price"] * PriceScale

WitnessC26 ==
    /\ lastOp.kind = "fetch_cars"
    /\ lastOp.ids_known
    /\ "min_price" \in DOMAIN lastOp.filters
    /\ lastOp.result # {}
    /\ \E d \in cars : d \notin lastOp.result

(* C22: a store call (save_car, mark_car_inactive) whose update_one raises
   returns its failure value and leaves the store as it was, and the save
   loop is not aborted: it goes on until every record has been handled. *)
TheoremC22 ==
    /\ (lastOp.kind = "store_call" /\ ~lastOp.store_up) =>
          (~lastOp.ok /\ cars = lastOp.before)
    /\ gen.pc # "aborted"
    /\ gen.pc = "loop" => gen.todo # <<>>
    /\ Len(gen.log) + Len(gen.todo) = gen.total

WitnessC22 ==
    /\ gen.pc = "done"
    /\ \E i \in 1..Len(gen.log) : \E j \in 1..Len(gen.log) :
          i < j /\ ~gen.log[i].ok /\ gen.log[j].ok

(* C30: in the detail-update loop, after every processed id
   total_updated + total_errors is the number of ids processed so far and
   model_updated + model_errors the number processed for the current model;
   the loop ends only when every id read from car_ids has been processed. *)
TheoremC30 ==
    /\ upd.total_updated + upd.total_errors = upd.processed
    /\ upd.pc = "ids" => upd.model_updated + upd.model_errors = upd.model_processed
    /\ upd.pc = "done" => upd.processed = upd.planned

WitnessC30 ==
    /\ upd.pc = "done"
    /\ upd.total_updated >= 1
    /\ upd.total_errors >= 2
    /\ upd.processed >= 4

(* C28: with work_hours_only = true, run_continuous starts run_scrapers only
   at an iteration whose Madrid time of day is between 09:00 and 18:00,
   both included; at any other iteration it sleeps ten minutes and starts
   over without scraping. *)
TheoremC28 ==
    (sched.pc # "idle" /\ sched.work_hours_only) =>
        LET tod == sched.iter_time % 86400
            within == 9 * 3600 <= tod /\ tod <= 18 * 3600
        IN  /\ sched.pc = "scrape" => within
            /\ sched.decision = "scrape" => within
            /\ sched.decision = "sleep" =>
                  /\ ~within
                  /\ sched.pc = "top"
                  /\ sched.clock = sched.iter_time + 600

WitnessC28 ==
    /\ sched.work_hours_only
    /\ sched.pc = "scrape"
    /\ sched.iter_time % 86400 = 18 * 3600
    /\ sched.iter_time > sched.start_day * 86400 + 86400

(* C29: run_continuous performs the daily full update once on every
   calendar day the loop runs through from midnight to midnight, whether or
   not work_hours_only is set. *)
ClaimC29 ==
    sched.pc # "idle" =>
        \A d \in 0..MaxDay :
            (sched.start_day < d /\ d < DateOf(sched.clock)) =>
                sched.daily_updates[d] = 1

====
